---- MODULE Spec2Model ----
(***************************************************************************)
(* bunny-api-tokio: the account client (src/bunny/mod.rs), the three       *)
(* revisions of the Edge Storage client (src/lib.rs, src/edge_storage.rs,  *)
(* src/edge_storage/mod.rs) and the endpoint resolver they share.          *)
(*                                                                         *)
(* Strings are sequences of tokens.  A token is one of the delimiters "/"  *)
(* and ":" or a chunk, a maximal run of characters holding no delimiter    *)
(* ("https", "storage.bunnycdn.com", "MyZone", "..").  URL parsing and     *)
(* joining only ever look at the delimiters, at the dot segments and at    *)
(* the letter case of scheme and host, which is what the model keeps.      *)
(* In a query string the characters "&", "=", "+" and " " and the %XX      *)
(* escapes are tokens of their own.                                        *)
(* API keys are sequences of bytes, because the header check is per byte.  *)
(***************************************************************************)
EXTENDS Integers, Sequences, FiniteSets, TLC

\* ------------------------------------------------------------------ bounds

\* Requests the transport accepts in one behaviour.
MaxSent == 1

\* ------------------------------------------------------------- string help

Front(s) == SubSeq(s, 1, Len(s) - 1)

DropFirst(s, n) == SubSeq(s, n + 1, Len(s))

\* ASCII case folding of scheme and host, on the chunks of the alphabet that
\* hold an upper-case letter.
Lower(c) ==
  CASE c = "HTTPS" -> "https"
    [] c = "H.Example" -> "h.example"
    [] OTHER -> c

\* Chunks of the alphabet that cannot be a scheme: they do not start with a
\* letter.
NotSchemeLike == {"", ".", "..", "9000", "443", "80", "&", "=", "+"}

IsSchemeChunk(c) == c \notin ({"/", ":"} \cup NotSchemeLike)

SpecialSchemes == {"http", "https"}

DefaultPort(scheme) == IF scheme = "https" THEN "443" ELSE "80"

\* ------------------------------------------------------------ url::Url

\* The value of a Url field that holds no URL.
NoUrl == [scheme |-> "", host |-> "", port |-> "", opaque |-> FALSE, path |-> <<>>]

UrlOk(u) == [ok |-> TRUE, url |-> u, err |-> "None", why |-> "None"]

\* Error::ParseError, made from url::ParseError by the ? operator.
UrlErr(why) == [ok |-> FALSE, url |-> NoUrl, err |-> "ParseError", why |-> why]

RECURSIVE SkipSlashes(_)
SkipSlashes(s) ==
  IF s # <<>> /\ s[1] = "/" THEN SkipSlashes(Tail(s)) ELSE s

\* The segments of a token string, split at "/".
RECURSIVE Split(_)
Split(s) ==
  IF s = <<>> THEN <<"">>
  ELSE IF s[1] = "/" THEN <<"">> \o Split(Tail(s))
  ELSE LET rest == Split(Tail(s)) IN <<s[1]>> \o Tail(rest)

\* Dot-segment removal of the path state: "." is dropped, ".." shortens the
\* path, and either leaves an empty segment when it is the last one.
RECURSIVE Normalize(_, _)
Normalize(acc, segs) ==
  IF segs = <<>> THEN acc
  ELSE LET seg == Head(segs)
           last == Len(segs) = 1
           popped == IF acc = <<>> THEN <<>> ELSE Front(acc)
       IN CASE seg = ".." ->
                 Normalize(IF last THEN popped \o <<"">> ELSE popped, Tail(segs))
            [] seg = "." ->
                 Normalize(IF last THEN acc \o <<"">> ELSE acc, Tail(segs))
            [] OTHER -> Normalize(acc \o <<seg>>, Tail(segs))

\* Authority and path of a special URL; s starts at the host.
ParseAuthority(scheme, s) ==
  IF s = <<>> \/ s[1] = ":" THEN UrlErr("EmptyHost")
  ELSE LET host == Lower(s[1])
           hasPort == Len(s) >= 3 /\ s[2] = ":" /\ s[3] \notin {"/", ":"}
           port == IF hasPort /\ s[3] # DefaultPort(scheme) THEN s[3] ELSE ""
           rest == IF hasPort THEN DropFirst(s, 3) ELSE DropFirst(s, 1)
       IN IF rest # <<>> /\ rest[1] # "/" THEN UrlErr("InvalidPort")
          ELSE UrlOk([scheme |-> scheme, host |-> host, port |-> port,
                      opaque |-> FALSE,
                      path |-> IF rest = <<>> THEN <<"">>
                               ELSE Normalize(<<>>, Tail(Split(rest)))])

\* Url::parse: an absolute URL, no base.
UrlParse(s) ==
  IF Len(s) >= 2 /\ IsSchemeChunk(s[1]) /\ s[2] = ":"
  THEN LET scheme == Lower(s[1]) IN
       IF scheme \in SpecialSchemes
       THEN ParseAuthority(scheme, SkipSlashes(DropFirst(s, 2)))
       ELSE UrlOk([scheme |-> scheme, host |-> "", port |-> "",
                   opaque |-> TRUE, path |-> DropFirst(s, 2)])
  ELSE UrlErr("RelativeUrlWithoutBase")

\* A reference without a scheme of its own, resolved against base.
JoinRelative(base, ref) ==
  IF ref = <<>> THEN UrlOk(base)
  ELSE IF Len(ref) >= 2 /\ ref[1] = "/" /\ ref[2] = "/"
  THEN ParseAuthority(base.scheme, SkipSlashes(ref))
  ELSE IF ref[1] = "/"
  THEN UrlOk([base EXCEPT !.path = Normalize(<<>>, Tail(Split(ref)))])
  ELSE UrlOk([base EXCEPT !.path = Normalize(<<>>, Front(base.path) \o Split(ref))])

\* Url::join.
UrlJoin(base, ref) ==
  IF Len(ref) >= 2 /\ IsSchemeChunk(ref[1]) /\ ref[2] = ":"
  THEN IF ~base.opaque /\ Lower(ref[1]) = base.scheme
       THEN JoinRelative(base, DropFirst(ref, 2))
       ELSE UrlParse(ref)
  ELSE IF base.opaque THEN UrlErr("RelativeUrlWithCannotBeABaseBase")
  ELSE JoinRelative(base, ref)

RECURSIVE PathStr(_)
PathStr(segs) ==
  IF segs = <<>> THEN <<>>
  ELSE <<"/">> \o (IF Head(segs) = "" THEN <<>> ELSE <<Head(segs)>>)
       \o PathStr(Tail(segs))

\* Url::as_str, the serialization.
UrlStr(u) ==
  IF u.opaque THEN <<u.scheme, ":">> \o u.path
  ELSE <<u.scheme, ":", "/", "/", u.host>>
       \o (IF u.port = "" THEN <<>> ELSE <<":", u.port>>)
       \o PathStr(u.path)

\* ------------------------------------------------------------ endpoints

FixedVariants ==
  {"Frankfurt", "London", "NewYork", "LosAngeles", "Singapore", "Stockholm",
   "SaoPaulo", "Johannesburg", "Sydney"}

Fixed(v) == [tag |-> v, arg |-> <<>>]

Custom(s) == [tag |-> "Custom", arg |-> s]

\* The literal "https://<host>" of a match arm.
Https(host) == <<"https", ":", "/", "/", host>>

\* impl TryInto<Url> for Endpoint, src/edge_storage/endpoint.rs.
Endpoint_try_into(e) ==
  CASE e.tag = "Frankfurt" -> UrlParse(Https("storage.bunnycdn.com"))
    [] e.tag = "London" -> UrlParse(Https("uk.storage.bunnycdn.com"))
    [] e.tag = "NewYork" -> UrlParse(Https("ny.storage.bunnycdn.com"))
    [] e.tag = "LosAngeles" -> UrlParse(Https("la.storage.bunnycdn.com"))
    [] e.tag = "Singapore" -> UrlParse(Https("sg.storage.bunnycdn.com"))
    [] e.tag = "Stockholm" -> UrlParse(Https("se.storage.bunnycdn.com"))
    [] e.tag = "SaoPaulo" -> UrlParse(Https("br.storage.bunnycdn.com"))
    [] e.tag = "Johannesburg" -> UrlParse(Https("jh.storage.bunnycdn.com"))
    [] e.tag = "Sydney" -> UrlParse(Https("syd.storage.bunnycdn.com"))
    [] e.tag = "Custom" -> UrlParse(e.arg)

\* The lib.rs resolver with the Sydney arm pasted from the Singapore arm.
StorageEndpoint_try_into_pasted(e) ==
  CASE e.tag = "Sydney" -> UrlParse(Https("sg.storage.bunnycdn.com"))
    [] OTHER -> Endpoint_try_into(e)

\* impl TryInto<Url> for StorageEndpoint, src/lib.rs.
StorageEndpoint_try_into(e) ==
  CASE e.tag = "Frankfurt" -> UrlParse(Https("storage.bunnycdn.com"))
    [] e.tag = "London" -> UrlParse(Https("uk.storage.bunnycdn.com"))
    [] e.tag = "NewYork" -> UrlParse(Https("ny.storage.bunnycdn.com"))
    [] e.tag = "LosAngeles" -> UrlParse(Https("la.storage.bunnycdn.com"))
    [] e.tag = "Singapore" -> UrlParse(Https("sg.storage.bunnycdn.com"))
    [] e.tag = "Stockholm" -> UrlParse(Https("se.storage.bunnycdn.com"))
    [] e.tag = "SaoPaulo" -> UrlParse(Https("br.storage.bunnycdn.com"))
    [] e.tag = "Johannesburg" -> UrlParse(Https("jh.storage.bunnycdn.com"))
    [] e.tag = "Sydney" -> UrlParse(Https("syd.storage.bunnycdn.com"))
    [] e.tag = "Custom" -> UrlParse(e.arg)

\* impl TryInto<Url> for Endpoint, src/edge_storage.rs.
Storage_Endpoint_try_into(e) ==
  CASE e.tag = "Frankfurt" -> UrlParse(Https("storage.bunnycdn.com"))
    [] e.tag = "London" -> UrlParse(Https("uk.storage.bunnycdn.com"))
    [] e.tag = "NewYork" -> UrlParse(Https("ny.storage.bunnycdn.com"))
    [] e.tag = "LosAngeles" -> UrlParse(Https("la.storage.bunnycdn.com"))
    [] e.tag = "Singapore" -> UrlParse(Https("sg.storage.bunnycdn.com"))
    [] e.tag = "Stockholm" -> UrlParse(Https("se.storage.bunnycdn.com"))
    [] e.tag = "SaoPaulo" -> UrlParse(Https("br.storage.bunnycdn.com"))
    [] e.tag = "Johannesburg" -> UrlParse(Https("jh.storage.bunnycdn.com"))
    [] e.tag = "Sydney" -> UrlParse(Https("syd.storage.bunnycdn.com"))
    [] e.tag = "Custom" -> UrlParse(e.arg)

\* The hostname the doc comment of each variant gives.
DocumentedHost(v) ==
  CASE v = "Frankfurt" -> "storage.bunnycdn.com"
    [] v = "London" -> "uk.storage.bunnycdn.com"
    [] v = "NewYork" -> "ny.storage.bunnycdn.com"
    [] v = "LosAngeles" -> "la.storage.bunnycdn.com"
    [] v = "Singapore" -> "sg.storage.bunnycdn.com"
    [] v = "Stockholm" -> "se.storage.bunnycdn.com"
    [] v = "SaoPaulo" -> "br.storage.bunnycdn.com"
    [] v = "Johannesburg" -> "jh.storage.bunnycdn.com"
    [] v = "Sydney" -> "syd.storage.bunnycdn.com"

\* The three copies of the resolver, by the file that holds them.
Resolvers == {"edge_storage/endpoint.rs", "lib.rs", "edge_storage.rs"}

Resolve(copy, e) ==
  CASE copy = "edge_storage/endpoint.rs" -> Endpoint_try_into(e)
    [] copy = "lib.rs" -> StorageEndpoint_try_into(e)
    [] copy = "edge_storage.rs" -> Storage_Endpoint_try_into(e)

\* The zone joined as a relative reference, without the leading "/".
ZoneUrl_relative(endpoint, storage_zone) ==
  UrlJoin(endpoint, storage_zone \o <<"/">>)

\* let storage_zone = String::from("/") + storage_zone.as_ref() + "/";
\* endpoint.join(&storage_zone)
ZoneUrl(endpoint, storage_zone) ==
  UrlJoin(endpoint, <<"/">> \o storage_zone \o <<"/">>)

\* ------------------------------------------------------------ inputs

\* API keys, as bytes: "api", the two UTF-8 bytes of a Cyrillic letter, and
\* "a" followed by a line feed.
KeyAscii == <<97, 112, 105>>

KeyNonAscii == <<208, 186>>

KeyControl == <<97, 10>>

Keys == {KeyAscii, KeyNonAscii, KeyControl}

\* Custom endpoint strings: no path; path and port; upper case; already
\* normalised; no scheme; a relative path; empty; host:port without a
\* scheme separator, which parses as scheme "localhost"; empty host.
CustomStrings ==
  { <<"https", ":", "/", "/", "h.example">>,
    <<"http", ":", "/", "/", "localhost", ":", "9000", "/", "base", "/">>,
    <<"HTTPS", ":", "/", "/", "H.Example", "/">>,
    <<"https", ":", "/", "/", "h.example", "/">>,
    <<"h.example">>,
    <<"/", "base", "/">>,
    <<>>,
    <<"localhost", ":", "9000">>,
    <<"https", ":", "/", "/">> }

Endpoints == {Fixed(v) : v \in FixedVariants} \cup {Custom(s) : s \in CustomStrings}

\* The endpoints clients are built on: the nine fixed ones, a custom URL with
\* port and path, and two custom strings that make construction fail (no
\* scheme; a URL that cannot be a base, on which the zone join fails).
ClientEndpoints ==
  {Fixed(v) : v \in FixedVariants}
  \cup { Custom(<<"http", ":", "/", "/", "localhost", ":", "9000", "/", "base", "/">>),
         Custom(<<"h.example">>),
         Custom(<<"localhost", ":", "9000">>) }

Zones == { <<"MyZone">>, <<"..">>, <<>> }

Paths ==
  { <<"/", "images", "/">>,
    <<"file.png">>,
    <<"..", "/", "x">>,
    <<"/", "/">>,
    <<"https", ":", "/", "/", "evil.example", "/", "x">> }

Statuses == {200, 400, 401, 404, 500}

\* Response bodies, as text: empty, plain text, and three JSON documents.
PageBody == "{Items:[{Id:1,Key:k,Roles:[a]}],CurrentPage:1,TotalItems:1,HasMoreItems:false}"

Bodies == {"", "no", "null", "[]", PageBody}

\* What the transport hands back to one send(): a failure before any
\* response, or a status line followed by a body that arrives whole or not.
SendFailed == [sendOk |-> FALSE, status |-> 0, bodyOk |-> FALSE, body |-> ""]

Responses ==
  {SendFailed}
  \cup {[sendOk |-> TRUE, status |-> st, bodyOk |-> TRUE, body |-> b] :
          st \in Statuses, b \in Bodies}
  \cup {[sendOk |-> TRUE, status |-> st, bodyOk |-> FALSE, body |-> ""] :
          st \in Statuses}

\* ------------------------------------------------------------ headers

\* HeaderValue::from_str checks every byte with is_valid:
\* b >= 32 && b != 127 || b == b'\t'.
is_valid(b) == (b >= 32 /\ b # 127) \/ b = 9

HeaderValue_from_str(src) == \A i \in 1..Len(src) : is_valid(src[i])

\* A header map over the three names the crate sets; "" and <<>> stand for
\* a name that is absent.
NoHeaders == [AccessKey |-> <<>>, accept |-> "", ContentType |-> ""]

\* RequestBuilder::header over the client's default headers: a header set on
\* the request replaces the default of the same name.
WithHeaders(defaults, accept, contentType) ==
  [AccessKey |-> defaults.AccessKey,
   accept |-> IF accept # "" THEN accept ELSE defaults.accept,
   ContentType |-> IF contentType # "" THEN contentType ELSE defaults.ContentType]

\* ------------------------------------------------------------ results

Ok(value) == [ok |-> TRUE, err |-> "None", text |-> "", value |-> value]

\* The payload of Ok(()).
Unit == <<"()", "">>

NoValue == <<"", "">>

Err(kind, text) == [ok |-> FALSE, err |-> kind, text |-> text, value |-> NoValue]

NoResult == [ok |-> FALSE, err |-> "None", text |-> "", value |-> NoValue]

\* return Err(Error::<kind>(response.text().await?));
ErrText(kind, resp) ==
  IF resp.bodyOk THEN Err(kind, resp.body) ELSE Err("Reqwest", "")

\* serde_json on the bodies of the alphabet: () reads null, a Vec reads an
\* array, Pagination<ApiKey> reads the page object.
FromJson(type, body) ==
  CASE type = "()" -> body = "null"
    [] type \in {"Vec<Country>", "Vec<Region>", "Vec<ListFile>"} -> body = "[]"
    [] type = "Pagination<ApiKey>" -> body = PageBody

\* A decoding that falls back to an empty value when the body does not fit.
JsonResult_or_default(type, resp) ==
  IF resp.bodyOk /\ FromJson(type, resp.body)
  THEN Ok(<<type, resp.body>>)
  ELSE Ok(<<type, "">>)

\* Ok(response.json().await?)
JsonResult(type, resp) ==
  IF resp.bodyOk /\ FromJson(type, resp.body)
  THEN Ok(<<type, resp.body>>)
  ELSE Err("Reqwest", "")

\* ------------------------------------------------------------ responses
\* What each method does with the outcome of its send().await?.

\* Storage::upload of src/lib.rs: .send().await?.text().await?; Ok(())
Lib_Storage_upload(resp) ==
  IF ~resp.sendOk THEN Err("Reqwest", "")
  ELSE IF ~resp.bodyOk THEN Err("Reqwest", "")
  ELSE Ok(Unit)

\* Storage::upload of src/edge_storage.rs.
Storage_upload(resp) ==
  IF ~resp.sendOk THEN Err("Reqwest", "")
  ELSE IF resp.status = 401 THEN ErrText("Authentication", resp)
  ELSE IF resp.status = 400 THEN ErrText("BadRequest", resp)
  ELSE Ok(Unit)

\* Storage::download of src/edge_storage.rs.
Storage_download(resp) ==
  IF ~resp.sendOk THEN Err("Reqwest", "")
  ELSE IF resp.status = 401 THEN ErrText("Authentication", resp)
  ELSE IF resp.status = 404 THEN ErrText("NotFound", resp)
  ELSE IF resp.bodyOk THEN Ok(<<"Bytes", resp.body>>)
  ELSE Err("Reqwest", "")

\* Storage::delete of src/edge_storage.rs.
Storage_delete(resp) ==
  IF ~resp.sendOk THEN Err("Reqwest", "")
  ELSE IF resp.status = 401 THEN ErrText("Authentication", resp)
  ELSE IF resp.status = 400 THEN ErrText("BadRequest", resp)
  ELSE Ok(Unit)

\* Storage::list of src/edge_storage.rs.
Storage_list(resp) ==
  IF ~resp.sendOk THEN Err("Reqwest", "")
  ELSE IF resp.status = 401 THEN ErrText("Authentication", resp)
  ELSE IF resp.status = 400 THEN ErrText("BadRequest", resp)
  ELSE JsonResult("Vec<ListFile>", resp)

\* EdgeStorageClient::upload.
EdgeStorageClient_upload(resp) ==
  IF ~resp.sendOk THEN Err("Reqwest", "")
  ELSE IF resp.status = 401 THEN ErrText("Authentication", resp)
  ELSE IF resp.status = 400 THEN ErrText("BadRequest", resp)
  ELSE Ok(Unit)

\* EdgeStorageClient::download mapping a 500 as the account methods do.
EdgeStorageClient_download_maps_500(resp) ==
  IF ~resp.sendOk THEN Err("Reqwest", "")
  ELSE IF resp.status = 401 THEN ErrText("Authentication", resp)
  ELSE IF resp.status = 404 THEN ErrText("NotFound", resp)
  ELSE IF resp.status = 500 THEN ErrText("InternalServerError", resp)
  ELSE IF resp.bodyOk THEN Ok(<<"Bytes", resp.body>>)
  ELSE Err("Reqwest", "")

\* EdgeStorageClient::download.
EdgeStorageClient_download(resp) ==
  IF ~resp.sendOk THEN Err("Reqwest", "")
  ELSE IF resp.status = 401 THEN ErrText("Authentication", resp)
  ELSE IF resp.status = 404 THEN ErrText("NotFound", resp)
  ELSE IF resp.bodyOk THEN Ok(<<"Bytes", resp.body>>)
  ELSE Err("Reqwest", "")

\* EdgeStorageClient::delete.
EdgeStorageClient_delete(resp) ==
  IF ~resp.sendOk THEN Err("Reqwest", "")
  ELSE IF resp.status = 401 THEN ErrText("Authentication", resp)
  ELSE IF resp.status = 400 THEN ErrText("BadRequest", resp)
  ELSE Ok(Unit)

\* EdgeStorageClient::list.
EdgeStorageClient_list(resp) ==
  IF ~resp.sendOk THEN Err("Reqwest", "")
  ELSE IF resp.status = 401 THEN ErrText("Authentication", resp)
  ELSE IF resp.status = 400 THEN ErrText("BadRequest", resp)
  ELSE JsonResult("Vec<ListFile>", resp)

\* Client::get_country_list.
Client_get_country_list(resp) ==
  IF ~resp.sendOk THEN Err("Reqwest", "")
  ELSE IF resp.status = 401 THEN ErrText("Authentication", resp)
  ELSE IF resp.status = 500 THEN ErrText("InternalServerError", resp)
  ELSE JsonResult("Vec<Country>", resp)

\* Client::list_api_keys.
Client_list_api_keys(resp) ==
  IF ~resp.sendOk THEN Err("Reqwest", "")
  ELSE IF resp.status = 401 THEN ErrText("Authentication", resp)
  ELSE IF resp.status = 500 THEN ErrText("InternalServerError", resp)
  ELSE JsonResult("Pagination<ApiKey>", resp)

\* Client::region_list.
Client_region_list(resp) ==
  IF ~resp.sendOk THEN Err("Reqwest", "")
  ELSE IF resp.status = 401 THEN ErrText("Authentication", resp)
  ELSE IF resp.status = 500 THEN ErrText("InternalServerError", resp)
  ELSE JsonResult("Vec<Region>", resp)

\* Client::purge_url with the body decoded before the status is looked at.
Client_purge_url_decode_first(resp) ==
  IF ~resp.sendOk THEN Err("Reqwest", "")
  ELSE IF ~(resp.bodyOk /\ FromJson("()", resp.body)) THEN Err("Reqwest", "")
  ELSE IF resp.status = 401 THEN ErrText("Authentication", resp)
  ELSE IF resp.status = 500 THEN ErrText("InternalServerError", resp)
  ELSE Ok(Unit)

\* Client::purge_url: the return type is Result<(), Error>, so the last
\* line decodes the body as the JSON of ().
Client_purge_url(resp) ==
  IF ~resp.sendOk THEN Err("Reqwest", "")
  ELSE IF resp.status = 401 THEN ErrText("Authentication", resp)
  ELSE IF resp.status = 500 THEN ErrText("InternalServerError", resp)
  ELSE JsonResult("()", resp)

\* The methods, by receiver.
LibStorageOps == {"lib::Storage::upload"}

StorageOps ==
  {"Storage::upload", "Storage::download", "Storage::delete", "Storage::list"}

EdgeStorageClientOps ==
  {"EdgeStorageClient::upload", "EdgeStorageClient::download",
   "EdgeStorageClient::delete", "EdgeStorageClient::list"}

AccountOps ==
  {"Client::get_country_list", "Client::list_api_keys", "Client::region_list",
   "Client::purge_url"}

AllStorageOps == LibStorageOps \cup StorageOps \cup EdgeStorageClientOps

Complete(op, resp) ==
  CASE op = "lib::Storage::upload" -> Lib_Storage_upload(resp)
    [] op = "Storage::upload" -> Storage_upload(resp)
    [] op = "Storage::download" -> Storage_download(resp)
    [] op = "Storage::delete" -> Storage_delete(resp)
    [] op = "Storage::list" -> Storage_list(resp)
    [] op = "EdgeStorageClient::upload" -> EdgeStorageClient_upload(resp)
    [] op = "EdgeStorageClient::download" -> EdgeStorageClient_download(resp)
    [] op = "EdgeStorageClient::delete" -> EdgeStorageClient_delete(resp)
    [] op = "EdgeStorageClient::list" -> EdgeStorageClient_list(resp)
    [] op = "Client::get_country_list" -> Client_get_country_list(resp)
    [] op = "Client::list_api_keys" -> Client_list_api_keys(resp)
    [] op = "Client::region_list" -> Client_region_list(resp)
    [] op = "Client::purge_url" -> Client_purge_url(resp)

\* ------------------------------------------------------------ state

VARIABLES
  client,   \* the client instance the caller holds, if any
  ctor,     \* the last call of a constructor or of Storage::init, and its error
  call,     \* the method invocation in progress or last completed
  sent,     \* number of HTTP requests handed to the transport so far
  probe     \* the endpoint resolver applied on its own

vars == <<client, ctor, call, sent, probe>>

NoEndpoint == [tag |-> "None", arg |-> <<>>]

\* kind: "None", "Client" (src/lib.rs: the account client with its storage
\* part) or "EdgeStorageClient".  headers are the default headers of the
\* reqwest client, url the storage base URL.  endpoint, zone and inited
\* record the arguments the base URL was last built from.
NoClient ==
  [kind |-> "None", headers |-> NoHeaders, url |-> NoUrl,
   endpoint |-> NoEndpoint, zone |-> <<>>, inited |-> FALSE]

NoCtor == [op |-> "None", api_key |-> <<>>, err |-> "None"]

NoArgs == [page |-> 0, per_page |-> 0, url |-> NoUrl, asynchronous |-> FALSE]

NoReq == [method |-> "", url |-> NoUrl, headers |-> NoHeaders, query |-> <<>>]

NoResp == [sendOk |-> FALSE, status |-> 0, bodyOk |-> FALSE, body |-> ""]

\* state: "idle", "sent" (suspended in send().await) or "done".  base,
\* endpoint, zone and inited are the client's when the request was built;
\* nsent counts the requests this invocation handed to the transport.
NoCall ==
  [state |-> "idle", op |-> "None", path |-> <<>>, args |-> NoArgs,
   base |-> NoUrl, endpoint |-> NoEndpoint, zone |-> <<>>, inited |-> FALSE,
   req |-> NoReq, nsent |-> 0, resp |-> NoResp, result |-> NoResult]

NoProbe ==
  [stage |-> "idle", copy |-> "None", endpoint |-> NoEndpoint,
   resolved |-> UrlErr("None"), zone |-> <<>>, joined |-> UrlErr("None")]

\* ------------------------------------------------------------ constructors

\* Client::new of src/lib.rs.  buildOk is the outcome of
\* RClient::builder().build(), which fails when the TLS backend cannot be
\* initialised.
Client_new(api_key, buildOk) ==
  IF ~HeaderValue_from_str(api_key)
  THEN [err |-> "InvalidHeader", client |-> NoClient]
  ELSE IF ~buildOk
  THEN [err |-> "Reqwest", client |-> NoClient]
  ELSE [err |-> "None",
        client |-> [kind |-> "Client",
                    headers |-> [NoHeaders EXCEPT !.AccessKey = api_key],
                    url |-> UrlParse(Https("storage.bunnycdn.com")).url,
                    endpoint |-> NoEndpoint, zone |-> <<>>, inited |-> FALSE]]

\* EdgeStorageClient::new.
EdgeStorageClient_new(api_key, endpoint, storage_zone, buildOk) ==
  IF ~HeaderValue_from_str(api_key)
  THEN [err |-> "InvalidHeader", client |-> NoClient]
  ELSE IF ~buildOk
  THEN [err |-> "Reqwest", client |-> NoClient]
  ELSE LET resolved == Endpoint_try_into(endpoint) IN
       IF ~resolved.ok
       THEN [err |-> resolved.err, client |-> NoClient]
       ELSE LET url == ZoneUrl(resolved.url, storage_zone) IN
            IF ~url.ok
            THEN [err |-> url.err, client |-> NoClient]
            ELSE [err |-> "None",
                  client |-> [kind |-> "EdgeStorageClient",
                              headers |-> [NoHeaders EXCEPT
                                             !.AccessKey = api_key,
                                             !.accept = "application/json"],
                              url |-> url.url,
                              endpoint |-> endpoint, zone |-> storage_zone,
                              inited |-> TRUE]]

\* Storage::init replacing the transport by one without default headers.
Storage_init_rebuild(self, copy, endpoint, storage_zone) ==
  LET resolved == Resolve(copy, endpoint) IN
  IF ~resolved.ok
  THEN [err |-> resolved.err, client |-> self]
  ELSE LET url == ZoneUrl(resolved.url, storage_zone) IN
       IF ~url.ok
       THEN [err |-> url.err, client |-> self]
       ELSE [err |-> "None",
             client |-> [self EXCEPT !.url = url.url, !.endpoint = endpoint,
                                     !.zone = storage_zone, !.inited = TRUE,
                                     !.headers = NoHeaders]]

\* Storage::init storing the resolved endpoint in self.url before it joins
\* the zone.
Storage_init_eager(self, copy, endpoint, storage_zone) ==
  LET resolved == Resolve(copy, endpoint) IN
  IF ~resolved.ok
  THEN [err |-> resolved.err, client |-> self]
  ELSE LET url == ZoneUrl(resolved.url, storage_zone) IN
       IF ~url.ok
       THEN [err |-> url.err, client |-> [self EXCEPT !.url = resolved.url]]
       ELSE [err |-> "None",
             client |-> [self EXCEPT !.url = url.url, !.endpoint = endpoint,
                                     !.zone = storage_zone, !.inited = TRUE]]

\* Storage::init of src/lib.rs and of src/edge_storage.rs, which differ in
\* the copy of the resolver they call.  self.url is assigned only when both
\* ? operators passed.
Storage_init(self, copy, endpoint, storage_zone) ==
  LET resolved == Resolve(copy, endpoint) IN
  IF ~resolved.ok
  THEN [err |-> resolved.err, client |-> self]
  ELSE LET url == ZoneUrl(resolved.url, storage_zone) IN
       IF ~url.ok
       THEN [err |-> url.err, client |-> self]
       ELSE [err |-> "None",
             client |-> [self EXCEPT !.url = url.url, !.endpoint = endpoint,
                                     !.zone = storage_zone, !.inited = TRUE]]

NewClient(api_key, buildOk) ==
  /\ client.kind = "None"
  /\ call.state = "idle"
  /\ LET r == Client_new(api_key, buildOk) IN
       /\ client' = r.client
       /\ ctor' = [op |-> "Client::new", api_key |-> api_key, err |-> r.err]
  /\ UNCHANGED <<call, sent, probe>>

\* EdgeStorageClient::new probing the endpoint with a request of its own.
NewEdgeStorageClient_probing(api_key, endpoint, storage_zone, buildOk) ==
  /\ client.kind = "None"
  /\ call.state = "idle"
  /\ LET r == EdgeStorageClient_new(api_key, endpoint, storage_zone, buildOk) IN
       /\ client' = r.client
       /\ ctor' = [op |-> "EdgeStorageClient::new", api_key |-> api_key,
                   err |-> r.err]
       /\ sent' = IF r.err \in {"None", "ParseError"} THEN sent + 1 ELSE sent
  /\ UNCHANGED <<call, probe>>

NewEdgeStorageClient(api_key, endpoint, storage_zone, buildOk) ==
  /\ client.kind = "None"
  /\ call.state = "idle"
  /\ LET r == EdgeStorageClient_new(api_key, endpoint, storage_zone, buildOk) IN
       /\ client' = r.client
       /\ ctor' = [op |-> "EdgeStorageClient::new", api_key |-> api_key,
                   err |-> r.err]
  /\ UNCHANGED <<call, sent, probe>>

\* init takes &mut self: no invocation borrows the client.
Init_Storage(copy, endpoint, storage_zone) ==
  /\ client.kind = "Client"
  /\ call.state = "idle"
  /\ LET r == Storage_init(client, copy, endpoint, storage_zone) IN
       /\ client' = r.client
       /\ ctor' = [op |-> "Storage::init", api_key |-> client.headers.AccessKey,
                   err |-> r.err]
  /\ UNCHANGED <<call, sent, probe>>

\* Storage::init while a request of this client is still with the transport.
\* The borrow of &self by the future of an operation excludes init for as
\* long as that future lives, so this step stands for a caller that dropped
\* the future after its request went out (select!, a timeout), and for any
\* coarser synchronisation a caller may put around the client.  The call
\* record is kept, to watch the request that is in flight.
Init_Storage_in_flight(copy, endpoint, storage_zone) ==
  /\ client.kind = "Client"
  /\ call.state = "sent"
  /\ LET r == Storage_init(client, copy, endpoint, storage_zone) IN
       /\ client' = r.client
       /\ ctor' = [op |-> "Storage::init", api_key |-> client.headers.AccessKey,
                   err |-> r.err]
  /\ UNCHANGED <<call, sent, probe>>

\* The caller lets go of the client.
DropClient ==
  /\ client.kind # "None"
  /\ call.state = "idle"
  /\ client' = NoClient
  /\ UNCHANGED <<ctor, call, sent, probe>>

\* ------------------------------------------------------------ requests

Method(op) ==
  CASE op \in {"lib::Storage::upload", "Storage::upload",
               "EdgeStorageClient::upload"} -> "PUT"
    [] op \in {"Storage::delete", "EdgeStorageClient::delete"} -> "DELETE"
    [] op = "Client::purge_url" -> "POST"
    [] OTHER -> "GET"

\* The .header(..) calls of each method: accept, then Content-Type.
OpAccept(op) ==
  CASE op \in {"Storage::download", "EdgeStorageClient::download"} -> "*/*"
    [] op = "Client::get_country_list" -> "application/json"
    [] OTHER -> ""

OpContentType(op) ==
  IF op \in {"lib::Storage::upload", "Storage::upload", "EdgeStorageClient::upload"}
  THEN "application/octet-stream"
  ELSE ""

\* self.reqwest.<method>(self.url.join(path.as_ref())?) of the storage
\* methods, with their headers.
StorageRequest(self, op, path) ==
  LET joined == UrlJoin(self.url, path) IN
  IF ~joined.ok
  THEN [ok |-> FALSE, err |-> joined.err, req |-> NoReq]
  ELSE [ok |-> TRUE, err |-> "None",
        req |-> [method |-> Method(op), url |-> joined.url,
                 headers |-> WithHeaders(self.headers, OpAccept(op), OpContentType(op)),
                 query |-> <<>>]]

\* The URL literal of each account method.
AccountUrl(op) ==
  CASE op = "Client::get_country_list" ->
         <<"https", ":", "/", "/", "api.bunny.net", "/", "country">>
    [] op = "Client::list_api_keys" ->
         <<"https", ":", "/", "/", "api.bunny.net", "/", "apikey">>
    [] op = "Client::region_list" ->
         <<"https", ":", "/", "/", "api.bunny.net", "/", "region">>
    [] op = "Client::purge_url" ->
         <<"https", ":", "/", "/", "api.bunny.net", "/", "purge">>

\* i32::to_string and bool::to_string on the arguments of the alphabet.
I32ToString(n) ==
  CASE n = 1 -> "1"
    [] n = 1000 -> "1000"
    [] n = -1 -> "-1"
    [] OTHER -> "0"

BoolToString(b) == IF b THEN "true" ELSE "false"

\* The pairs handed to RequestBuilder::query.
AccountQuery(op, args) ==
  CASE op = "Client::list_api_keys" ->
         << <<"page", <<I32ToString(args.page)>> >>,
            <<"perPage", <<I32ToString(args.per_page)>> >> >>
    [] op = "Client::purge_url" ->
         << <<"url", UrlStr(args.url)>>,
            <<"async", <<BoolToString(args.asynchronous)>> >> >>
    [] OTHER -> <<>>

\* The application/x-www-form-urlencoded byte serializer with "&" left out
\* of the characters it escapes.
byte_serialize_keeps_amp(tok) ==
  CASE tok = "/" -> "%2F"
    [] tok = ":" -> "%3A"
    [] tok = "=" -> "%3D"
    [] tok = "+" -> "%2B"
    [] tok = " " -> "+"
    [] OTHER -> tok

\* The application/x-www-form-urlencoded byte serializer RequestBuilder::query
\* writes names and values with, per token: letters, digits and "*-._" stay
\* (every chunk of the alphabet), a space becomes "+", any other character
\* becomes its %XX escape.
byte_serialize(tok) ==
  CASE tok = "/" -> "%2F"
    [] tok = ":" -> "%3A"
    [] tok = "&" -> "%26"
    [] tok = "=" -> "%3D"
    [] tok = "+" -> "%2B"
    [] tok = " " -> "+"
    [] OTHER -> tok

\* RequestBuilder::query: the pairs appended to the (empty) query of the
\* request URL as name=value, joined with "&".
RECURSIVE RequestBuilder_query(_)
RequestBuilder_query(pairs) ==
  IF pairs = <<>> THEN <<>>
  ELSE LET pair == Head(pairs)
           value == [i \in 1..Len(pair[2]) |-> byte_serialize(pair[2][i])]
       IN <<byte_serialize(pair[1]), "=">> \o value
          \o (IF Len(pairs) > 1 THEN <<"&">> ELSE <<>>)
          \o RequestBuilder_query(Tail(pairs))

\* query is the query string of the request URL, after the "?".
AccountRequest(self, op, args) ==
  [method |-> Method(op), url |-> UrlParse(AccountUrl(op)).url,
   headers |-> WithHeaders(self.headers, OpAccept(op), OpContentType(op)),
   query |-> RequestBuilder_query(AccountQuery(op, args))]

\* Arguments of the account methods.
PageArgs == { [NoArgs EXCEPT !.page = 1, !.per_page = 1000],
              [NoArgs EXCEPT !.page = 0, !.per_page = -1] }

\* URLs to purge: a plain one, and one whose path segments are the
\* characters "&", "+" and "=", which a path keeps unescaped.
PurgeUrls ==
  { UrlParse(<<"https", ":", "/", "/", "h.example", "/", "file.png">>).url,
    UrlParse(<<"https", ":", "/", "/", "h.example", "/", "&", "/", "+", "/", "=">>).url }

PurgeArgs ==
  { [NoArgs EXCEPT !.url = u, !.asynchronous = a] : u \in PurgeUrls, a \in BOOLEAN }

ArgsOf(op) ==
  CASE op = "Client::list_api_keys" -> PageArgs
    [] op = "Client::purge_url" -> PurgeArgs
    [] OTHER -> {NoArgs}

\* The storage methods a client offers.
StorageOpsOf(kind) ==
  CASE kind = "Client" -> LibStorageOps \cup StorageOps
    [] kind = "EdgeStorageClient" -> EdgeStorageClientOps
    [] OTHER -> {}

\* ------------------------------------------------------------ invocations

\* A storage method up to its send().await: the path is joined to the base
\* URL, and a join that fails returns before anything is sent.
StartStorage(op, path) ==
  /\ op \in StorageOpsOf(client.kind)
  /\ call.state = "idle"
  /\ LET r == StorageRequest(client, op, path)
         c == [NoCall EXCEPT !.op = op, !.path = path, !.base = client.url,
                             !.endpoint = client.endpoint, !.zone = client.zone,
                             !.inited = client.inited]
     IN IF r.ok
        THEN /\ sent < MaxSent
             /\ call' = [c EXCEPT !.state = "sent", !.req = r.req, !.nsent = 1]
             /\ sent' = sent + 1
        ELSE /\ call' = [c EXCEPT !.state = "done", !.result = Err(r.err, "")]
             /\ sent' = sent
  /\ UNCHANGED <<client, ctor, probe>>

\* An account method up to its send().await.
StartAccount(op, args) ==
  /\ client.kind = "Client"
  /\ op \in AccountOps
  /\ call.state = "idle"
  /\ sent < MaxSent
  /\ call' = [NoCall EXCEPT !.state = "sent", !.op = op, !.args = args,
                            !.base = client.url, !.endpoint = client.endpoint,
                            !.zone = client.zone, !.inited = client.inited,
                            !.req = AccountRequest(client, op, args),
                            !.nsent = 1]
  /\ sent' = sent + 1
  /\ UNCHANGED <<client, ctor, probe>>

\* A method that sends its request again after a 500.
Respond_retry(resp) ==
  /\ call.state = "sent"
  /\ IF resp.sendOk /\ resp.status = 500 /\ call.nsent < 2
     THEN /\ call' = [call EXCEPT !.nsent = call.nsent + 1]
          /\ sent' = sent + 1
     ELSE /\ call' = [call EXCEPT !.state = "done", !.resp = resp,
                                  !.result = Complete(call.op, resp)]
          /\ sent' = sent
  /\ UNCHANGED <<client, ctor, probe>>

\* A method that builds its request again, from the base URL the client has
\* by then, when the response arrives.
Respond_rebuild(resp) ==
  /\ call.state = "sent"
  /\ call' = [call EXCEPT !.state = "done", !.resp = resp,
                          !.result = Complete(call.op, resp),
                          !.req = IF call.op \in AllStorageOps
                                  THEN [call.req EXCEPT
                                          !.url = UrlJoin(client.url, call.path).url]
                                  ELSE call.req]
  /\ UNCHANGED <<client, ctor, sent, probe>>

\* The transport completes the send(), and the method runs to its return.
Respond(resp) ==
  /\ call.state = "sent"
  /\ call' = [call EXCEPT !.state = "done", !.resp = resp,
                          !.result = Complete(call.op, resp)]
  /\ UNCHANGED <<client, ctor, sent, probe>>

\* The caller takes the result of the completed invocation.
Return ==
  /\ call.state = "done"
  /\ call' = NoCall
  /\ UNCHANGED <<client, ctor, sent, probe>>

\* ------------------------------------------------------------ resolver alone

ProbeResolve(copy, endpoint) ==
  /\ probe.stage = "idle"
  /\ probe' = [NoProbe EXCEPT !.stage = "resolved", !.copy = copy,
                              !.endpoint = endpoint,
                              !.resolved = Resolve(copy, endpoint)]
  /\ UNCHANGED <<client, ctor, call, sent>>

ProbeJoin(storage_zone) ==
  /\ probe.stage = "resolved"
  /\ probe.resolved.ok
  /\ probe' = [probe EXCEPT !.stage = "joined", !.zone = storage_zone,
                            !.joined = ZoneUrl(probe.resolved.url, storage_zone)]
  /\ UNCHANGED <<client, ctor, call, sent>>

\* ------------------------------------------------------------ specifications

Init ==
  /\ client = NoClient
  /\ ctor = NoCtor
  /\ call = NoCall
  /\ sent = 0
  /\ probe = NoProbe

Next ==
  \/ \E k \in Keys, b \in BOOLEAN : NewClient(k, b)
  \/ \E k \in Keys, e \in ClientEndpoints, z \in Zones, b \in BOOLEAN :
       NewEdgeStorageClient(k, e, z, b)
  \/ \E copy \in {"lib.rs", "edge_storage.rs"}, e \in ClientEndpoints, z \in Zones :
       Init_Storage(copy, e, z)
  \/ DropClient
  \/ \E op \in AllStorageOps, p \in Paths : StartStorage(op, p)
  \/ \E op \in AccountOps : \E a \in ArgsOf(op) : StartAccount(op, a)
  \/ \E r \in Responses : Respond(r)
  \/ Return

Spec == Init /\ [][Next]_vars

\* One coupled client, its init and its storage methods, with init also
\* running between the send of a request and its response.  Endpoints: two
\* fixed ones, a custom URL, and a custom string that does not parse.
RetargetEndpoints ==
  { Fixed("Frankfurt"), Fixed("Sydney"),
    Custom(<<"http", ":", "/", "/", "localhost", ":", "9000", "/", "base", "/">>),
    Custom(<<"h.example">>) }

RetargetResponses ==
  {SendFailed}
  \cup {[sendOk |-> TRUE, status |-> st, bodyOk |-> TRUE, body |-> "no"] :
          st \in {200, 401}}

NextRetarget ==
  \/ NewClient(KeyAscii, TRUE)
  \/ \E copy \in {"lib.rs", "edge_storage.rs"}, e \in RetargetEndpoints, z \in Zones :
       Init_Storage(copy, e, z)
  \/ \E copy \in {"lib.rs", "edge_storage.rs"}, e \in RetargetEndpoints, z \in Zones :
       Init_Storage_in_flight(copy, e, z)
  \/ \E op \in LibStorageOps \cup StorageOps, p \in Paths : StartStorage(op, p)
  \/ \E r \in RetargetResponses : Respond(r)
  \/ Return

SpecRetarget == Init /\ [][NextRetarget]_vars

NextResolve ==
  \/ \E copy \in Resolvers, e \in Endpoints : ProbeResolve(copy, e)
  \/ \E z \in Zones : ProbeJoin(z)

SpecResolve == Init /\ [][NextResolve]_vars

\* ------------------------------------------------------------ properties

IsPrefix(p, t) == Len(p) <= Len(t) /\ SubSeq(t, 1, Len(p)) = p

\* The invocation has handed a request to the transport.
Issued == call.state \in {"sent", "done"} /\ call.nsent > 0

Done == call.state = "done"

\* The invocation is over and the server's response arrived whole.
Answered == Done /\ call.resp.sendOk /\ call.resp.bodyOk

\* C1: a list of "/images/" on a client set up with a fixed endpoint and zone
\* "MyZone" is sent to <endpoint base>/MyZone/images/.
C1_ListTargetsZonePath ==
  ( /\ Issued
    /\ call.op \in {"Storage::list", "EdgeStorageClient::list"}
    /\ call.inited
    /\ call.endpoint.tag \in FixedVariants
    /\ call.zone = <<"MyZone">>
    /\ call.path = <<"/", "images", "/">> )
  => UrlStr(call.req.url)
       = Https(DocumentedHost(call.endpoint.tag)) \o <<"/", "MyZone", "/", "images", "/">>

\* C2: every request of a storage method goes to the host of the resolved
\* endpoint and to a path under /<zone>/, whatever the path argument, also on
\* a client whose storage part was never initialised.
C2_ZoneScoped ==
  (Issued /\ call.op \in AllStorageOps)
  => /\ call.inited
     /\ LET endpoint == Endpoint_try_into(call.endpoint).url IN
          /\ call.req.url.scheme = endpoint.scheme
          /\ call.req.url.host = endpoint.host
          /\ call.req.url.port = endpoint.port
     /\ IsPrefix(<<"/">> \o call.zone \o <<"/">>, PathStr(call.req.url.path))

\* C3: an account method answers a 401 with Authentication and a 500 with
\* InternalServerError, each carrying the body text, whether or not the body
\* is JSON.
C3_AccountStatusErrors ==
  (Answered /\ call.op \in AccountOps)
  => /\ call.resp.status = 401 => call.result = Err("Authentication", call.resp.body)
     /\ call.resp.status = 500 => call.result = Err("InternalServerError", call.resp.body)

C3_Witness ==
  /\ Answered
  /\ call.op = "Client::purge_url"
  /\ call.resp.status = 401
  /\ call.resp.body = "no"
  /\ call.result = Err("Authentication", "no")

\* C4: every revision of the storage methods answers a 404 on download with
\* NotFound, a 400 on upload, delete and list with BadRequest and a 401 with
\* Authentication, each carrying the body text.
C4_StorageStatusErrors ==
  (Answered /\ call.op \in AllStorageOps)
  => /\ call.resp.status = 401 => call.result = Err("Authentication", call.resp.body)
     /\ ( /\ call.resp.status = 404
          /\ call.op \in {"Storage::download", "EdgeStorageClient::download"} )
        => call.result = Err("NotFound", call.resp.body)
     /\ ( /\ call.resp.status = 400
          /\ call.op \notin {"Storage::download", "EdgeStorageClient::download"} )
        => call.result = Err("BadRequest", call.resp.body)

\* C5: purge_url returns Ok(()) for every status other than 401 and 500,
\* whatever the body.
C5_PurgeSucceeds ==
  ( /\ Answered
    /\ call.op = "Client::purge_url"
    /\ call.resp.status \notin {401, 500} )
  => call.result = Ok(Unit)

\* C6: each of the nine fixed variants resolves, in each of the three copies
\* of the resolver, to https://<documented host>/; the copies agree and no
\* two variants share a URL.
C6_FixedEndpointsResolve ==
  (probe.stage # "idle" /\ probe.endpoint.tag \in FixedVariants)
  => /\ probe.resolved.ok
     /\ UrlStr(probe.resolved.url)
          = <<"https", ":", "/", "/", DocumentedHost(probe.endpoint.tag), "/">>
     /\ \A copy \in Resolvers : Resolve(copy, probe.endpoint) = probe.resolved
     /\ \A v \in FixedVariants \ {probe.endpoint.tag} :
          Resolve(probe.copy, Fixed(v)).url # probe.resolved.url

C6_Witness ==
  /\ probe.stage = "resolved"
  /\ probe.copy = "lib.rs"
  /\ probe.endpoint = Fixed("Sydney")
  /\ probe.resolved.ok
  /\ probe.resolved.url.host = "syd.storage.bunnycdn.com"

\* The string has no scheme: it does not start with a scheme chunk and ":".
LacksScheme(str) == ~(Len(str) >= 2 /\ IsSchemeChunk(str[1]) /\ str[2] = ":")

\* The string has something after its authority.
HasPath(str) == Len(str) > 5 /\ \E i \in 6..Len(str) : str[i] = "/"

\* The string with scheme and host in lower case and "/" for an absent path.
Canonical(str) ==
  IF Lower(str[1]) \notin SpecialSchemes THEN str
  ELSE [i \in 1..Len(str) |-> IF i <= 5 THEN Lower(str[i]) ELSE str[i]]
       \o (IF HasPath(str) THEN <<>> ELSE <<"/">>)

HeaderSafe(key) == \A i \in 1..Len(key) : (key[i] >= 32 /\ key[i] < 127) \/ key[i] = 9

HasNonAscii(key) == \E i \in 1..Len(key) : key[i] >= 128

Constructors == {"Client::new", "EdgeStorageClient::new"}

\* C8: a constructor does not reject a header-safe API key, and fails with
\* InvalidHeader on an API key that holds a non-ASCII byte (the transport
\* itself being buildable).
C8_ApiKeyValidation ==
  (ctor.op \in Constructors /\ ctor.err # "Reqwest")
  => /\ HeaderSafe(ctor.api_key) => ctor.err # "InvalidHeader"
     /\ HasNonAscii(ctor.api_key) => ctor.err = "InvalidHeader"

\* C9, as stated: an invocation that returned has issued exactly one request.
C9_ExactlyOneRequest ==
  /\ call.state = "sent" => call.nsent = 1
  /\ Done => call.nsent = 1

\* C9, amended: an invocation issues one request and never a second; the one
\* invocation that returns with none is a storage method whose path does not
\* join to the base URL, which returns ParseError before sending.
C9_AtMostOneRequest ==
  /\ [](call.state = "sent" => call.nsent = 1)
  /\ [](Done => \/ call.nsent = 1
                \/ /\ call.nsent = 0
                   /\ call.op \in AllStorageOps
                   /\ ~UrlJoin(call.base, call.path).ok
                   /\ call.result = Err("ParseError", ""))
  /\ [][ /\ call.state = "sent" => sent' = sent
         /\ call.state = "idle" => sent' = sent + call'.nsent ]_vars

C9_Witness ==
  /\ Done
  /\ call.op = "Client::list_api_keys"
  /\ call.resp.status = 500
  /\ call.result.err = "InternalServerError"
  /\ call.nsent = 1
  /\ sent = 1

\* C10: a constructor sends nothing, whether it fails or succeeds, and a
\* failed constructor leaves no client.
C10_ConstructionOffline ==
  /\ []((ctor.op \in Constructors /\ ctor.err # "None") => client.kind = "None")
  /\ [][ (ctor' # ctor \/ client' # client) => (sent' = sent /\ call' = call) ]_vars

C10_Witness ==
  /\ ctor.op = "EdgeStorageClient::new"
  /\ ctor.err = "ParseError"
  /\ client.kind = "None"
  /\ sent = 0

\* C11: every request carries the header AccessKey with exactly the API key
\* given to the constructor, and the key attached to a client never changes
\* while the client lives, Storage::init included.
C11_AccessKeyFixed ==
  /\ [](Issued => /\ client.kind # "None"
                  /\ call.req.headers.AccessKey = client.headers.AccessKey)
  /\ []((ctor.op \in Constructors /\ ctor.err = "None" /\ client.kind # "None")
         => client.headers.AccessKey = ctor.api_key)
  /\ [][ (client.kind # "None" /\ client'.kind # "None")
         => client'.headers.AccessKey = client.headers.AccessKey ]_vars

C11_Witness ==
  /\ call.state = "sent"
  /\ call.op = "Storage::upload"
  /\ ctor.op = "Storage::init"
  /\ ctor.err = "None"
  /\ client.endpoint = Fixed("Sydney")
  /\ call.req.headers.AccessKey = KeyNonAscii

\* C12: every request of an account method carries accept: application/json.
C12_AccountAccept ==
  (Issued /\ call.op \in AccountOps)
  => call.req.headers.accept = "application/json"

\* The pieces of a token string between the occurrences of d.
RECURSIVE SplitAt(_, _)
SplitAt(s, d) ==
  IF s = <<>> THEN << <<>> >>
  ELSE IF s[1] = d THEN << <<>> >> \o SplitAt(Tail(s), d)
  ELSE LET rest == SplitAt(Tail(s), d) IN << <<s[1]>> \o Head(rest) >> \o Tail(rest)

\* Percent-decoding of a form-urlencoded token: "+" reads as a space, an
\* escape as its character.
PercentDecode(tok) ==
  CASE tok = "%2F" -> "/"
    [] tok = "%3A" -> ":"
    [] tok = "%26" -> "&"
    [] tok = "%3D" -> "="
    [] tok = "%2B" -> "+"
    [] tok = "+" -> " "
    [] OTHER -> tok

\* A name=value piece of a query string, decoded; the name ends at the first
\* "=".
DecodePair(piece) ==
  LET eqs == {i \in 1..Len(piece) : piece[i] = "="}
      k == IF eqs = {} THEN Len(piece) + 1
           ELSE CHOOSE i \in eqs : \A j \in eqs : i <= j
      name == SubSeq(piece, 1, k - 1)
      value == SubSeq(piece, k + 1, Len(piece))
  IN << [i \in 1..Len(name) |-> PercentDecode(name[i])],
        [i \in 1..Len(value) |-> PercentDecode(value[i])] >>

\* The pairs a server reads from a query string: the pieces between "&",
\* empty pieces skipped.
RECURSIVE DecodePieces(_)
DecodePieces(pieces) ==
  IF pieces = <<>> THEN <<>>
  ELSE (IF Head(pieces) = <<>> THEN <<>> ELSE <<DecodePair(Head(pieces))>>)
       \o DecodePieces(Tail(pieces))

DecodeQuery(query) == DecodePieces(SplitAt(query, "&"))

\* C13: purge_url sends one POST to https://api.bunny.net/purge whose query
\* string reads back as the two parameters url and async, in this order: url
\* is the serialization of the Url the caller passed, async is "true" or
\* "false" as the flag was set or not.
C13_PurgeQuery ==
  (Issued /\ call.op = "Client::purge_url")
  => /\ call.nsent = 1
     /\ call.req.method = "POST"
     /\ UrlStr(call.req.url) = <<"https", ":", "/", "/", "api.bunny.net", "/", "purge">>
     /\ DecodeQuery(call.req.query)
          = << << <<"url">>, UrlStr(call.args.url) >>,
               << <<"async">>,
                  <<IF call.args.asynchronous THEN "true" ELSE "false">> >> >>

C13_Witness ==
  /\ call.state = "sent"
  /\ call.op = "Client::purge_url"
  /\ call.args.asynchronous
  /\ UrlStr(call.args.url)
       = <<"https", ":", "/", "/", "h.example", "/", "&", "/", "+", "/", "=">>
  /\ call.req.query
       = <<"url", "=", "https", "%3A", "%2F", "%2F", "h.example", "%2F", "%26",
           "%2F", "%2B", "%2F", "%3D", "&", "async", "=", "true">>

Uploads == {"lib::Storage::upload", "Storage::upload", "EdgeStorageClient::upload"}

Deletes == {"Storage::delete", "EdgeStorageClient::delete"}

Downloads == {"Storage::download", "EdgeStorageClient::download"}

\* C14: on a response that arrived whole, upload and delete return Ok(()) for
\* every status other than 401 and 400, download returns the body bytes for
\* every status other than 401 and 404, and no storage method ever returns
\* InternalServerError.
C14_StorageUnmappedSucceeds ==
  /\ (Answered /\ call.op \in Uploads \cup Deletes /\ call.resp.status \notin {401, 400})
       => call.result = Ok(Unit)
  /\ (Answered /\ call.op \in Downloads /\ call.resp.status \notin {401, 404})
       => call.result = Ok(<<"Bytes", call.resp.body>>)
  /\ (Done /\ call.op \in AllStorageOps) => call.result.err # "InternalServerError"

C14_Witness ==
  /\ Answered
  /\ call.op = "EdgeStorageClient::download"
  /\ call.resp.status = 500
  /\ call.resp.body = "no"
  /\ call.result = Ok(<<"Bytes", "no">>)

\* The methods of the claim that decode a JSON body, the type each decodes
\* and the statuses each maps to an error of its own.
JsonOps ==
  {"Client::get_country_list", "Client::list_api_keys", "Client::region_list",
   "Storage::list", "EdgeStorageClient::list"}

JsonType(op) ==
  CASE op = "Client::get_country_list" -> "Vec<Country>"
    [] op = "Client::list_api_keys" -> "Pagination<ApiKey>"
    [] op = "Client::region_list" -> "Vec<Region>"
    [] OTHER -> "Vec<ListFile>"

MappedStatuses(op) == IF op \in AccountOps THEN {401, 500} ELSE {401, 400}

\* C15: a JSON-decoding method answered with an unmapped status and a body
\* that is not of the expected shape returns the transport error Reqwest:
\* no domain error and no success.
C15_DecodeFailureIsTransportError ==
  ( /\ Answered
    /\ call.op \in JsonOps
    /\ call.resp.status \notin MappedStatuses(call.op)
    /\ ~FromJson(JsonType(call.op), call.resp.body) )
  => /\ ~call.result.ok
     /\ call.result.err = "Reqwest"
     /\ call.result.err
          \notin {"Authentication", "BadRequest", "NotFound", "InternalServerError"}

C15_Witness ==
  /\ Answered
  /\ call.op = "EdgeStorageClient::list"
  /\ call.resp.status = 404
  /\ call.resp.body = "no"
  /\ call.result = Err("Reqwest", "")

\* C16: however init and the storage methods interleave, a request is built
\* from one value of the base URL, the client's when the method built it: the
\* URL of the last successful init (endpoint and zone of that one call); a
\* request in flight keeps its URL when init changes the client.
C16_SingleBaseUrl ==
  /\ []((Issued /\ call.op \in AllStorageOps)
         => /\ call.req.url = UrlJoin(call.base, call.path).url
            /\ call.inited
                 => call.base
                      = ZoneUrl(Endpoint_try_into(call.endpoint).url, call.zone).url)
  /\ [][ (call.state = "idle" /\ call'.state # "idle" /\ call'.op \in AllStorageOps)
         => /\ call'.base = client.url
            /\ call'.endpoint = client.endpoint
            /\ call'.zone = client.zone ]_vars
  /\ [][ (call.state = "sent" /\ call'.state # "idle")
         => (call'.req = call.req /\ call'.base = call.base) ]_vars

C16_Witness ==
  /\ call.state = "sent"
  /\ call.op = "Storage::upload"
  /\ call.endpoint = Fixed("Frankfurt")
  /\ call.zone = <<"MyZone">>
  /\ call.path = <<"file.png">>
  /\ UrlStr(call.req.url) = Https("storage.bunnycdn.com") \o <<"/", "MyZone", "/", "file.png">>
  /\ ctor.op = "Storage::init"
  /\ ctor.err = "None"
  /\ client.endpoint = Fixed("Sydney")
  /\ client.zone = <<"..">>
  /\ client.url # call.base

\* C17: an init that fails, on the endpoint or on the zone join, leaves the
\* client as it was; the base URL of a living client changes only in a step
\* of init that succeeds, never in a step of a storage method; so the base
\* URL is always that of the last successful init, or the one of Client::new.
C17_FailedInitKeepsBase ==
  /\ [][ (ctor'.op = "Storage::init" /\ ctor'.err # "None")
         => \A copy \in {"lib.rs", "edge_storage.rs"}, e \in RetargetEndpoints,
               z \in Zones :
              (Init_Storage(copy, e, z) \/ Init_Storage_in_flight(copy, e, z))
              => client' = client ]_vars
  /\ [][ (client.kind # "None" /\ client'.kind # "None" /\ client'.url # client.url)
         => /\ call' = call
            /\ ctor'.op = "Storage::init"
            /\ ctor'.err = "None"
            /\ \E copy \in {"lib.rs", "edge_storage.rs"}, e \in RetargetEndpoints,
                  z \in Zones :
                 /\ ZoneUrl(Resolve(copy, e).url, z).ok
                 /\ client'.url = ZoneUrl(Resolve(copy, e).url, z).url ]_vars
  /\ [](client.kind = "Client"
         => client.url
              = IF client.inited
                THEN ZoneUrl(Endpoint_try_into(client.endpoint).url, client.zone).url
                ELSE UrlParse(Https("storage.bunnycdn.com")).url)

C17_Witness ==
  /\ ctor.op = "Storage::init"
  /\ ctor.err = "ParseError"
  /\ client.inited
  /\ client.endpoint = Fixed("Sydney")
  /\ UrlStr(client.url) = Https("syd.storage.bunnycdn.com") \o <<"/", "MyZone", "/">>
  /\ call.state = "sent"
  /\ call.op = "Storage::delete"
  /\ call.base = client.url

====
